---- MODULE Spec2Model ----
(***************************************************************************)
(* Keithley 2400 voltage sweeps: the single-instrument script              *)
(* KeithleyIVSweep_Mobile_V1.1.py ("IV") and the dual-instrument script    *)
(* KeithleyPVSweep_Mobile_V1.py ("PV").  Each script is a sequential       *)
(* program; one action models one statement (or one block of statements    *)
(* that cannot fail in between).  Every instrument write or query may      *)
(* raise (pyvisa error), which nothing in the scripts catches.             *)
(*                                                                         *)
(* Voltages are Python floats.  They are modelled as IEEE-754 binary64     *)
(* values with round-to-nearest-even arithmetic on exact mantissas,        *)
(* so that int((Vmax - Vmin) / step_size) and Vmin + i * step_size have    *)
(* the values CPython computes.                                            *)
(***************************************************************************)
EXTENDS Integers, Sequences, FiniteSets, TLC

(***************************************************************************)
(* Natural numbers of any size: sequences of digits in base 2^14, least    *)
(* significant digit first, without leading zero digits; zero is << >>.    *)
(* (Sums of four digit products fit the integers of the model checker.)    *)
(* Carries are computed by look-ahead instead of digit by digit, which     *)
(* keeps the evaluation shallow.                                           *)
(***************************************************************************)
Base == 2 ^ 14

LimbBits == CHOOSE k \in 1..30 : 2 ^ k = Base

Max(x, y) == IF x < y THEN y ELSE x

Digit(a, j) == IF j >= 1 /\ j <= Len(a) THEN a[j] ELSE 0

Trim(b) ==
    LET n == CHOOSE j \in 0..Len(b) :
                 /\ j = 0 \/ b[j] # 0
                 /\ \A k \in (j + 1)..Len(b) : b[k] = 0
    IN  SubSeq(b, 1, n)

\* the digits of a machine integer n >= 0
LimbsOf(n) ==
    Trim([j \in 1..3 |-> (n \div (Base ^ (j - 1))) % Base])

\* the value of a number small enough to be a machine integer
NatOf(b) ==
    Digit(b, 1) + Base * Digit(b, 2) + Base * Base * Digit(b, 3)

BAdd(a, b) ==
    LET n        == Max(Len(a), Len(b)) + 1
        s(j)     == Digit(a, j) + Digit(b, j)
        carry(j) == \E i \in 1..(j - 1) :
                        /\ s(i) >= Base
                        /\ \A k \in (i + 1)..(j - 1) : s(k) = Base - 1
    IN  Trim([j \in 1..n |-> (s(j) + IF carry(j) THEN 1 ELSE 0) % Base])

\* a - b for a >= b
BSub(a, b) ==
    LET borrow(j) == \E i \in 1..(j - 1) :
                         /\ Digit(a, i) < Digit(b, i)
                         /\ \A k \in (i + 1)..(j - 1) : Digit(a, k) = Digit(b, k)
    IN  Trim([j \in 1..Len(a) |->
                 (Digit(a, j) - Digit(b, j) - IF borrow(j) THEN 1 ELSE 0) % Base])

BLess(a, b) ==
    LET n == Max(Len(a), Len(b))
    IN  \E j \in 1..n :
            /\ Digit(a, j) < Digit(b, j)
            /\ \A k \in (j + 1)..n : Digit(a, k) = Digit(b, k)

\* a * d for one digit d
BTimes(a, d) ==
    BAdd([j \in 1..Len(a) |-> (a[j] * d) % Base],
         << 0 >> \o [j \in 1..Len(a) |-> (a[j] * d) \div Base])

RECURSIVE BMul(_, _)
BMul(a, b) ==
    IF b = << >> \/ a = << >> THEN << >>
    ELSE LET rest == BMul(a, Tail(b))
         IN  BAdd(BTimes(a, b[1]), IF rest = << >> THEN << >> ELSE << 0 >> \o rest)

\* a * 2^n
Shl(a, n) ==
    IF a = << >> THEN << >>
    ELSE [j \in 1..(n \div LimbBits) |-> 0] \o BTimes(a, 2 ^ (n % LimbBits))

\* a \div 2^n
Shr(a, n) ==
    IF n \div LimbBits >= Len(a) THEN << >>
    ELSE LET w == SubSeq(a, n \div LimbBits + 1, Len(a))
             s == n % LimbBits
         IN  Trim([j \in 1..Len(w) |->
                      w[j] \div (2 ^ s) + (Digit(w, j + 1) % (2 ^ s)) * 2 ^ (LimbBits - s)])

\* the number of bits of a
BitLen(a) ==
    IF a = << >> THEN 0
    ELSE LimbBits * (Len(a) - 1)
         + CHOOSE k \in 1..LimbBits : 2 ^ (k - 1) <= a[Len(a)] /\ a[Len(a)] < 2 ^ k

\* Long division by b, whose leading digit is at least Base \div 2: the more
\* significant digits of a first, then its least significant one.  The
\* quotient digit is estimated from the leading digits (at most 2 too large).
RECURSIVE DivStep(_, _)
DivStep(a, b) ==
    IF a = << >> THEN << << >>, << >> >>
    ELSE LET rest == DivStep(Tail(a), b)
         IN  IF rest[2] = << >> /\ a[1] = 0 THEN << << 0 >> \o rest[1], << >> >>
             ELSE LET r2   == Trim(<< a[1] >> \o rest[2])
                      n    == Len(b)
                      top  == Digit(r2, n + 1) * Base + Digit(r2, n)
                      qhat == IF top \div b[n] < Base THEN top \div b[n] ELSE Base - 1
                      d    == IF ~BLess(r2, BTimes(b, qhat)) THEN qhat
                              ELSE IF ~BLess(r2, BTimes(b, qhat - 1)) THEN qhat - 1
                              ELSE qhat - 2
                  IN  << << d >> \o rest[1], BSub(r2, BTimes(b, d)) >>

\* << a \div b, a % b >> for b # 0
BDivMod(a, b) ==
    LET s  == LimbBits - (BitLen(b) - LimbBits * (Len(b) - 1))
        qr == DivStep(Shl(a, s), Shl(b, s))
    IN  << Trim(qr[1]), Shr(qr[2], s) >>

(***************************************************************************)
(* Python floats: IEEE-754 binary64, round to nearest, ties to even.  A    *)
(* float is [sgn, man, exp] with value sgn * man * 2^exp, man a number of  *)
(* exactly Prec bits, or << >> for zero.  Exponent overflow and         *)
(* subnormals are not modelled: the voltages of a sweep stay far from both.*)
(***************************************************************************)
Prec == 53

Zero == [sgn |-> 1, man |-> << >>, exp |-> 0]

\* The float nearest to sgn * m * 2^e (plus a non-zero tail below the last
\* bit of m when sticky).
Round(sgn, m, e, sticky) ==
    IF m = << >> THEN Zero
    ELSE IF BitLen(m) <= Prec
    THEN [sgn |-> sgn, man |-> Shl(m, Prec - BitLen(m)),
          exp |-> e - (Prec - BitLen(m))]
    ELSE LET d    == BitLen(m) - Prec
             kept == Shr(m, d)
             low  == BSub(m, Shl(kept, d))
             half == Shl(<< 1 >>, d - 1)
             up   == \/ BLess(half, low)
                     \/ low = half /\ (sticky \/ kept[1] % 2 = 1)
             k2   == IF up THEN BAdd(kept, << 1 >>) ELSE kept
         IN  IF BitLen(k2) > Prec
             THEN [sgn |-> sgn, man |-> Shr(k2, 1), exp |-> e + d + 1]
             ELSE [sgn |-> sgn, man |-> k2, exp |-> e + d]

\* float(n) of a Python int
FromInt(n) ==
    IF n = 0 THEN Zero
    ELSE Round(IF n < 0 THEN -1 ELSE 1, LimbsOf(IF n < 0 THEN -n ELSE n), 0, FALSE)

FNeg(a) == IF a.man = << >> THEN a ELSE [a EXCEPT !.sgn = -a.sgn]

FAdd(a, b) ==
    IF a.man = << >> THEN b
    ELSE IF b.man = << >> THEN a
    ELSE LET e  == IF a.exp < b.exp THEN a.exp ELSE b.exp
             ma == Shl(a.man, a.exp - e)
             mb == Shl(b.man, b.exp - e)
         IN  IF a.sgn = b.sgn THEN Round(a.sgn, BAdd(ma, mb), e, FALSE)
             ELSE IF ma = mb THEN Zero
             ELSE IF BLess(ma, mb) THEN Round(b.sgn, BSub(mb, ma), e, FALSE)
             ELSE Round(a.sgn, BSub(ma, mb), e, FALSE)

FSub(a, b) == FAdd(a, FNeg(b))

FMul(a, b) ==
    IF a.man = << >> \/ b.man = << >> THEN Zero
    ELSE Round(a.sgn * b.sgn, BMul(a.man, b.man), a.exp + b.exp, FALSE)

\* a / b for b # 0: Prec + 3 more quotient bits than the divisor consumes,
\* the remainder as the sticky bit.
FDiv(a, b) ==
    IF a.man = << >> THEN Zero
    ELSE LET qr == BDivMod(Shl(a.man, Prec + 3), b.man)
         IN  Round(a.sgn * b.sgn, qr[1], a.exp - b.exp - (Prec + 3), qr[2] # << >>)

\* int(a): truncation toward zero
TruncInt(a) ==
    IF a.man = << >> THEN 0
    ELSE IF a.exp >= 0 THEN a.sgn * NatOf(Shl(a.man, a.exp))
    ELSE a.sgn * NatOf(Shr(a.man, -a.exp))

\* The float of a decimal literal with one digit after the point, given in
\* tenths: the float nearest to tenths / 10.
Lit(tenths) == FDiv(FromInt(tenths), FromInt(10))

(***************************************************************************)
(* The inputs of a run: the module-level parameters of the scripts.        *)
(* Voltages are written as decimal literals with one digit after the       *)
(* point and are given here in tenths of a volt; compliance currents are   *)
(* given in milliamperes.                                                  *)
(***************************************************************************)
MaxTenth == 3

MaxStep == 2

MaxPoints == 3

Tenths == (-1)..MaxTenth

Steps == 1..MaxStep

\* compliance_current given to the single-instrument script, in mA: the
\* script's 0.10 A, and 0.35 A
IV_Compliances == {100, 350}

\* compliance_current (mA), read_bias (V) and compliance_read (mA) given to
\* the dual-instrument script: the script's 0.35 A, 0 V, 0.1 A, and a second
\* setting with a non-zero bias
PV_Setups ==
    { [compliance_current |-> 350, read_bias |-> 0, compliance_read |-> 100],
      [compliance_current |-> 100, read_bias |-> 1, compliance_read |-> 350] }

\* points = int((Vmax - Vmin) / step_size) + 1
SweepPoints(Vmin, Vmax, step_size) ==
    TruncInt(FDiv(FSub(Vmax, Vmin), step_size)) + 1

\* voltage = Vmin + i * step_size
SweepVoltage(Vmin, step_size, i) ==
    FAdd(Vmin, FMul(FromInt(i), step_size))

\* The sweep parameters a run can be given: the literals (in tenths) and the
\* floats they denote, for the sweeps of at most MaxPoints points.
Sweeps ==
    {s \in {[lit |-> c, Vmin |-> Lit(c[1]), Vmax |-> Lit(c[2]),
             step_size |-> Lit(c[3])] : c \in Tenths \X Tenths \X Steps} :
        SweepPoints(s.Vmin, s.Vmax, s.step_size) <= MaxPoints}

\* The currents an instrument can measure: what ':READ?' returns as its
\* second value.
Currents == { FromInt(1), FromInt(-2) }

(***************************************************************************)
(* The state of a run.                                                     *)
(***************************************************************************)
VARIABLES
    script,            \* which script runs: "IV" or "PV"
    conf,              \* its module-level parameters
    pc,                \* the statement to execute next
    call,              \* main program: which initialize_Keithley call runs
    istep,             \* initialize_Keithley: the configuration write to issue next
    session,           \* per instrument: "none", "open" or "closed"
    bus,               \* every write and query issued, in order
    points, i, voltage, t, current, power,
    voltage_1, current_1, power_1, power_2,
    t_values, voltage_values, current_values, power_values,
    voltage_1_values, current_1_values, power_1_values, power_2_values,
    now,               \* time.time(), in settle delays
    start_time,
    stdout,            \* the progress lines printed
    file,              \* the result file
    row,               \* the index of the persistence loop
    err                \* the uncaught exception, if any

locals == << points, i, voltage, t, current, power,
             voltage_1, current_1, power_1, power_2 >>

lists == << t_values, voltage_values, current_values, power_values,
            voltage_1_values, current_1_values, power_1_values, power_2_values >>

vars == << script, conf, pc, call, istep, session, bus, locals, lists,
           now, start_time, stdout, file, row, err >>

Instruments == {"Keithley", "Volt_Supp_Instr", "Curr_Read_Instr"}

\* The instruments a script drives, in the order it initializes them.
Driven(sc) ==
    IF sc = "IV" THEN << "Keithley" >>
    ELSE << "Volt_Supp_Instr", "Curr_Read_Instr" >>

NoArg == [none |-> TRUE]

NoError == [kind |-> "none", at |-> "none"]

\* One command on the bus: a write or a query (a write and a read) of the
\* text, completed by the formatted argument if any, issued at a source line.
Cmd(k, op, text, arg, line, ok) ==
    [inst |-> k, op |-> op, text |-> text, arg |-> arg, line |-> line, ok |-> ok]

\* instrument.write(text): it is sent, or pyvisa raises
Write(k, text, arg, line, next) ==
    \/ /\ bus' = Append(bus, Cmd(k, "write", text, arg, line, TRUE))
       /\ pc' = next
       /\ err' = err
    \/ /\ bus' = Append(bus, Cmd(k, "write", text, arg, line, FALSE))
       /\ pc' = "crashed"
       /\ err' = [kind |-> "TransportError", at |-> pc]

\* A faulty variant of QueryFails: the exception is swallowed and the script
\* carries on after the loop.
QueryFails_Caught(k, text, line) ==
    /\ bus' = Append(bus, Cmd(k, "query", text, NoArg, line, FALSE))
    /\ pc' = "input"
    /\ err' = [kind |-> "TransportError", at |-> pc]

\* a query that raises
QueryFails(k, text, line) ==
    /\ bus' = Append(bus, Cmd(k, "query", text, NoArg, line, FALSE))
    /\ pc' = "crashed"
    /\ err' = [kind |-> "TransportError", at |-> pc]

\* a query that returns
QueryReturns(k, text, line, next) ==
    /\ bus' = Append(bus, Cmd(k, "query", text, NoArg, line, TRUE))
    /\ pc' = next
    /\ err' = err

\* the commands addressed to k, in order
ToInst(k) == SelectSeq(bus, LAMBDA c : c.inst = k)

IsVolt(c) == c.op = "write" /\ c.text = ":SOUR:VOLT"

\* The source level of k: the voltage of the last ':SOUR:VOLT' it received
\* (0 V after the reset).  ':READ?' returns it as its first value.
Level(k) ==
    LET w == SelectSeq(ToInst(k), LAMBDA c : IsVolt(c) /\ c.ok)
    IN  IF w = << >> THEN Zero ELSE w[Len(w)].arg

NoFile == [state |-> "none", lines |-> << >>]

Init ==
    /\ \E s \in Sweeps :
          \/ /\ script = "IV"
             /\ \E cc \in IV_Compliances :
                   conf = [lit |-> s.lit, Vmin |-> s.Vmin, Vmax |-> s.Vmax,
                           step_size |-> s.step_size,
                           compliance_current |-> cc]
          \/ /\ script = "PV"
             /\ \E p \in PV_Setups :
                   conf = [lit |-> s.lit, Vmin |-> s.Vmin, Vmax |-> s.Vmax,
                           step_size |-> s.step_size,
                           compliance_current |-> p.compliance_current,
                           read_bias |-> FromInt(p.read_bias),
                           compliance_read |-> p.compliance_read]
    /\ pc = "open"
    /\ call = 1
    /\ istep = 1
    /\ session = [k \in Instruments |-> "none"]
    /\ bus = << >>
    /\ points = 0 /\ i = -1 /\ t = 0
    /\ voltage = Zero /\ current = Zero /\ power = Zero
    /\ voltage_1 = Zero /\ current_1 = Zero /\ power_1 = Zero /\ power_2 = Zero
    /\ t_values = << >> /\ voltage_values = << >>
    /\ current_values = << >> /\ power_values = << >>
    /\ voltage_1_values = << >> /\ current_1_values = << >>
    /\ power_1_values = << >> /\ power_2_values = << >>
    /\ now = 0
    /\ start_time = 0
    /\ stdout = << >>
    /\ file = NoFile
    /\ row = 0
    /\ err = NoError

(***************************************************************************)
(* initialize_Keithley: open the instrument, identify it, configure it.    *)
(***************************************************************************)

\* The protection level the I-V initializer programs, in mA: the literal
\* of ':SENS:CURR:PROT 150E-3'.
IV_Protection == 150

\* The configuration writes of the I-V initializer, in source order.
IV_InitCommands ==
    << [text |-> "*rst; status:preset;",   arg |-> NoArg, line |-> 31],
       [text |-> ":SOUR:FUNC VOLT",        arg |-> NoArg, line |-> 34],
       [text |-> ":SOUR:VOLT",             arg |-> Zero,  line |-> 37],
       [text |-> ":SENS:CURR:PROT",        arg |-> [mA |-> IV_Protection], line |-> 40],
       [text |-> ":SENS:CURR:RANG:AUTO ON", arg |-> NoArg, line |-> 41],
       [text |-> ":SENS:FUNC \"CURR\"",    arg |-> NoArg, line |-> 44] >>

\* A faulty variant of PV_InitCommands: the compliance is programmed before
\* the source is set to 0 V.
PV_InitCommands_Reordered(compliance_current) ==
    << [text |-> "*rst; status:preset;",   arg |-> NoArg, line |-> 31],
       [text |-> ":SOUR:FUNC VOLT",        arg |-> NoArg, line |-> 34],
       [text |-> ":SENS:CURR:PROT",        arg |-> [mA |-> compliance_current], line |-> 40],
       [text |-> ":SOUR:VOLT",             arg |-> Zero,  line |-> 37],
       [text |-> ":SENS:CURR:RANG:AUTO ON", arg |-> NoArg, line |-> 41],
       [text |-> ":SENS:FUNC \"CURR\"",    arg |-> NoArg, line |-> 44] >>

\* The configuration writes of the P-V initializer, called with a compliance.
PV_InitCommands(compliance_current) ==
    << [text |-> "*rst; status:preset;",   arg |-> NoArg, line |-> 31],
       [text |-> ":SOUR:FUNC VOLT",        arg |-> NoArg, line |-> 34],
       [text |-> ":SOUR:VOLT",             arg |-> Zero,  line |-> 37],
       [text |-> ":SENS:CURR:PROT",        arg |-> [mA |-> compliance_current], line |-> 40],
       [text |-> ":SENS:CURR:RANG:AUTO ON", arg |-> NoArg, line |-> 41],
       [text |-> ":SENS:FUNC \"CURR\"",    arg |-> NoArg, line |-> 44] >>

\* The compliance the P-V main program passes to its two calls.
PV_InitArgument ==
    IF call = 1 THEN conf.compliance_current ELSE conf.compliance_read

\* rm.open_resource(...): the session opens, or pyvisa raises
OpenResource(k) ==
    /\ pc = "open"
    /\ session[k] = "none"
    /\ \/ /\ session' = [session EXCEPT ![k] = "open"]
          /\ pc' = "idn"
          /\ err' = err
       \/ /\ session' = session
          /\ pc' = "crashed"
          /\ err' = [kind |-> "TransportError", at |-> pc]
    /\ UNCHANGED << script, conf, call, istep, bus, locals, lists,
                    now, start_time, stdout, file, row >>

\* print("Connected to:", Keithley.query("*IDN?"))
Identify(k) ==
    /\ pc = "idn"
    /\ \/ QueryReturns(k, "*IDN?", 27, "config")
       \/ QueryFails(k, "*IDN?", 27)
    /\ UNCHANGED << script, conf, call, istep, session, locals, lists,
                    now, start_time, stdout, file, row >>

\* the istep-th configuration write
Configure(k, commands) ==
    /\ pc = "config"
    /\ LET c == commands[istep]
       IN  Write(k, c.text, c.arg, c.line,
                 IF istep < Len(commands) THEN "config" ELSE "return")
    /\ istep' = IF istep < Len(commands) THEN istep + 1 ELSE istep
    /\ UNCHANGED << script, conf, call, session, locals, lists,
                    now, start_time, stdout, file, row >>

\* return Keithley: back in the main program, at the next call or the sweep
Return(sc) ==
    /\ pc = "return"
    /\ IF call < Len(Driven(sc))
         THEN /\ call' = call + 1
              /\ istep' = 1
              /\ pc' = "open"
         ELSE /\ pc' = "unpack"
              /\ UNCHANGED << call, istep >>
    /\ UNCHANGED << script, conf, session, bus, locals, lists,
                    now, start_time, stdout, file, row, err >>

IV_initialize_Keithley ==
    /\ script = "IV"
    /\ \/ OpenResource("Keithley")
       \/ Identify("Keithley")
       \/ Configure("Keithley", IV_InitCommands)
       \/ Return("IV")

PV_initialize_Keithley ==
    /\ script = "PV"
    /\ LET k == Driven("PV")[call]
       IN  \/ OpenResource(k)
           \/ Identify(k)
           \/ Configure(k, PV_InitCommands(PV_InitArgument))
           \/ Return("PV")

(***************************************************************************)
(* Statements both sweeps share, up to the instrument and the source line. *)
(***************************************************************************)

\* A faulty variant of ForNext: the function returns at the end of the loop,
\* so nothing written after the loop is executed.
ForNext_Return(body, after) ==
    IF i + 1 < points
      THEN /\ i' = i + 1
           /\ pc' = body
      ELSE /\ i' = i
           /\ pc' = "input"

\* for i in range(points): bind the next index, or leave the loop
ForNext(body, after) ==
    IF i + 1 < points
      THEN /\ i' = i + 1
           /\ pc' = body
      ELSE /\ i' = i
           /\ pc' = after

\* voltage = Vmin + i * step_size, then the write of it
SetVoltage(k, line, next) ==
    /\ voltage' = SweepVoltage(conf.Vmin, conf.step_size, i)
    /\ Write(k, ":SOUR:VOLT", voltage', line, next)

\* time.sleep(0.05), then t = time.time() - start_time
Settle(next) ==
    /\ now' = now + 1
    /\ t' = now' - start_time
    /\ pc' = next

\* A faulty variant of Progress: every step is reported.
Progress_EveryStep(v, c) == Append(stdout, [voltage |-> v, current |-> c])

\* if int(voltage) == voltage: print(...)
Progress(v, c) ==
    IF FSub(FromInt(TruncInt(v)), v).man = << >>
      THEN Append(stdout, [voltage |-> v, current |-> c])
      ELSE stdout

\* A faulty variant of OpenFile: a failure to create the file is swallowed
\* and the script goes on.
OpenFile_Swallowed(next) ==
    \/ /\ file' = [state |-> "open", lines |-> << >>]
       /\ pc' = next
       /\ err' = err
    \/ /\ file' = file
       /\ pc' = next
       /\ err' = err

\* with open(...) as file: the file is created, or open raises
OpenFile(next) ==
    \/ /\ file' = [state |-> "open", lines |-> << >>]
       /\ pc' = next
       /\ err' = err
    \/ /\ file' = file
       /\ pc' = "crashed"
       /\ err' = [kind |-> "PersistenceError", at |-> pc]

\* the preamble lines and the column header
Preamble(type, columns) ==
    << "*! Laptop Compatible \"Mobile\" Version of QKeithleyControlMaster",
       "*! Project = Fill project details here",
       "#! Fluence / Dose / Condition = Fill measurement details here",
       type, "", columns >>

\* for i in range(points): file.write(row i); then the file closes.
\* Indexing a list past its end raises IndexError.
WriteRows(series, next) ==
    IF row < points
      THEN IF \A n \in 1..Len(series) : row + 1 <= Len(series[n])
             THEN /\ file' = [file EXCEPT !.lines =
                                Append(@, [n \in 1..Len(series) |-> series[n][row + 1]])]
                  /\ row' = row + 1
                  /\ pc' = pc
                  /\ err' = err
             ELSE /\ file' = [file EXCEPT !.state = "closed"]
                  /\ row' = row
                  /\ pc' = "crashed"
                  /\ err' = [kind |-> "IndexError", at |-> pc]
      ELSE /\ file' = [file EXCEPT !.state = "closed"]
           /\ row' = row
           /\ pc' = next
           /\ err' = err

(***************************************************************************)
(* KeithleyIVSweep: IV_Sweep and the main program.                         *)
(***************************************************************************)

IV_Unpack ==
    /\ script = "IV" /\ pc = "unpack"
    /\ points' = SweepPoints(conf.Vmin, conf.Vmax, conf.step_size)
    /\ t_values' = << >> /\ voltage_values' = << >>
    /\ current_values' = << >> /\ power_values' = << >>
    /\ pc' = "outp_on"
    /\ UNCHANGED << script, conf, call, istep, session, bus, i, voltage, t,
                    current, power, voltage_1, current_1, power_1, power_2,
                    voltage_1_values, current_1_values, power_1_values,
                    power_2_values, now, start_time, stdout, file, row, err >>

IV_OutputOn ==
    /\ script = "IV" /\ pc = "outp_on"
    /\ Write("Keithley", ":OUTP ON", NoArg, 63, "start")
    /\ UNCHANGED << script, conf, call, istep, session, locals, lists,
                    now, start_time, stdout, file, row >>

IV_Start ==
    /\ script = "IV" /\ pc = "start"
    /\ start_time' = now
    /\ pc' = "for"
    /\ UNCHANGED << script, conf, call, istep, session, bus, locals, lists,
                    now, stdout, file, row, err >>

IV_For ==
    /\ script = "IV" /\ pc = "for"
    /\ ForNext("set_volt", "zero")
    /\ UNCHANGED << script, conf, call, istep, session, bus, points, voltage, t,
                    current, power, voltage_1, current_1, power_1, power_2,
                    lists, now, start_time, stdout, file, row, err >>

IV_SetVoltage ==
    /\ script = "IV" /\ pc = "set_volt"
    /\ SetVoltage("Keithley", 69, "settle")
    /\ UNCHANGED << script, conf, call, istep, session, points, i, t,
                    current, power, voltage_1, current_1, power_1, power_2,
                    lists, now, start_time, stdout, file, row >>

\* A faulty variant of IV_Settle: the elapsed time is taken without waiting.
IV_Settle_NoSleep ==
    /\ script = "IV" /\ pc = "settle"
    /\ t' = now - start_time
    /\ pc' = "read"
    /\ UNCHANGED << script, conf, call, istep, session, bus, points, i, voltage,
                    current, power, voltage_1, current_1, power_1, power_2,
                    lists, now, start_time, stdout, file, row, err >>

IV_Settle ==
    /\ script = "IV" /\ pc = "settle"
    /\ Settle("read")
    /\ UNCHANGED << script, conf, call, istep, session, bus, points, i, voltage,
                    current, power, voltage_1, current_1, power_1, power_2,
                    lists, start_time, stdout, file, row, err >>

\* current = float(Keithley.query(':READ?').split(',')[1]); power = voltage * current
IV_Read ==
    /\ script = "IV" /\ pc = "read"
    /\ \/ \E c \in Currents :
             /\ QueryReturns("Keithley", ":READ?", 76, "append")
             /\ current' = c
             /\ power' = FMul(voltage, c)
       \/ /\ QueryFails("Keithley", ":READ?", 76)
          /\ UNCHANGED << current, power >>
    /\ UNCHANGED << script, conf, call, istep, session, points, i, voltage, t,
                    voltage_1, current_1, power_1, power_2,
                    lists, now, start_time, stdout, file, row >>

IV_Append ==
    /\ script = "IV" /\ pc = "append"
    /\ t_values' = Append(t_values, t)
    /\ voltage_values' = Append(voltage_values, voltage)
    /\ current_values' = Append(current_values, current)
    /\ power_values' = Append(power_values, power)
    /\ pc' = "print"
    /\ UNCHANGED << script, conf, call, istep, session, bus, locals,
                    voltage_1_values, current_1_values, power_1_values,
                    power_2_values, now, start_time, stdout, file, row, err >>

IV_Print ==
    /\ script = "IV" /\ pc = "print"
    /\ stdout' = Progress(voltage, current)
    /\ pc' = "for"
    /\ UNCHANGED << script, conf, call, istep, session, bus, locals, lists,
                    now, start_time, file, row, err >>

\* A faulty variant of IV_Zero: the source is not returned to 0 V.
IV_Zero_Omitted ==
    /\ script = "IV" /\ pc = "zero"
    /\ pc' = "outp_off"
    /\ UNCHANGED << script, conf, call, istep, session, bus, locals, lists,
                    now, start_time, stdout, file, row, err >>

IV_Zero ==
    /\ script = "IV" /\ pc = "zero"
    /\ Write("Keithley", ":SOUR:VOLT", Zero, 90, "outp_off")
    /\ UNCHANGED << script, conf, call, istep, session, locals, lists,
                    now, start_time, stdout, file, row >>

IV_OutputOff ==
    /\ script = "IV" /\ pc = "outp_off"
    /\ Write("Keithley", ":OUTP OFF", NoArg, 93, "input")
    /\ UNCHANGED << script, conf, call, istep, session, locals, lists,
                    now, start_time, stdout, file, row >>

\* directory = ...; filename = input("Enter filename: ") + ".txt"
IV_Input ==
    /\ script = "IV" /\ pc = "input"
    /\ pc' = "fopen"
    /\ UNCHANGED << script, conf, call, istep, session, bus, locals, lists,
                    now, start_time, stdout, file, row, err >>

IV_OpenFile ==
    /\ script = "IV" /\ pc = "fopen"
    /\ OpenFile("fheader")
    /\ UNCHANGED << script, conf, call, istep, session, bus, locals, lists,
                    now, start_time, stdout, row >>

IV_Header ==
    /\ script = "IV" /\ pc = "fheader"
    /\ file' = [file EXCEPT !.lines =
                  Preamble("#! Type = iv-sweep", "t V I P")]
    /\ row' = 0
    /\ pc' = "frows"
    /\ UNCHANGED << script, conf, call, istep, session, bus, locals, lists,
                    now, start_time, stdout, err >>

IV_Rows ==
    /\ script = "IV" /\ pc = "frows"
    /\ WriteRows(<< t_values, voltage_values, current_values, power_values >>,
                 "report")
    /\ UNCHANGED << script, conf, call, istep, session, bus, locals, lists,
                    now, start_time, stdout >>

\* A faulty variant of IV_Report: the sweep closes the session itself.
IV_Report_Closing ==
    /\ script = "IV" /\ pc = "report"
    /\ session' = [session EXCEPT !["Keithley"] = "closed"]
    /\ pc' = "close"
    /\ UNCHANGED << script, conf, call, istep, bus, locals, lists,
                    now, start_time, stdout, file, row, err >>

\* print("Data saved successfully."), then the plot of |current| against voltage
IV_Report ==
    /\ script = "IV" /\ pc = "report"
    /\ pc' = "close"
    /\ UNCHANGED << script, conf, call, istep, session, bus, locals, lists,
                    now, start_time, stdout, file, row, err >>

\* Keithley.close()
IV_Close ==
    /\ script = "IV" /\ pc = "close"
    /\ session' = [session EXCEPT !["Keithley"] = "closed"]
    /\ pc' = "exit"
    /\ UNCHANGED << script, conf, call, istep, bus, locals, lists,
                    now, start_time, stdout, file, row, err >>

\* exit()
IV_Exit ==
    /\ script = "IV" /\ pc = "exit"
    /\ pc' = "exited"
    /\ UNCHANGED << script, conf, call, istep, session, bus, locals, lists,
                    now, start_time, stdout, file, row, err >>

(***************************************************************************)
(* KeithleyPVSweep: the two-instrument sweep and its main program.         *)
(***************************************************************************)

PV_Unpack ==
    /\ script = "PV" /\ pc = "unpack"
    /\ points' = SweepPoints(conf.Vmin, conf.Vmax, conf.step_size)
    /\ t_values' = << >> /\ voltage_values' = << >>
    /\ current_values' = << >> /\ power_values' = << >>
    /\ voltage_1_values' = << >> /\ current_1_values' = << >>
    /\ power_1_values' = << >> /\ power_2_values' = << >>
    /\ pc' = "outp_on_1"
    /\ UNCHANGED << script, conf, call, istep, session, bus, i, voltage, t,
                    current, power, voltage_1, current_1, power_1, power_2,
                    now, start_time, stdout, file, row, err >>

PV_OutputOn1 ==
    /\ script = "PV" /\ pc = "outp_on_1"
    /\ Write("Volt_Supp_Instr", ":OUTP ON", NoArg, 67, "outp_on_2")
    /\ UNCHANGED << script, conf, call, istep, session, locals, lists,
                    now, start_time, stdout, file, row >>

\* A faulty variant of PV_OutputOn2: the secondary is biased in place of
\* having its output enabled.
PV_OutputOn2_BiasFirst ==
    /\ script = "PV" /\ pc = "outp_on_2"
    /\ Write("Curr_Read_Instr", ":SOUR:VOLT", conf.read_bias, 68, "bias")
    /\ UNCHANGED << script, conf, call, istep, session, locals, lists,
                    now, start_time, stdout, file, row >>

PV_OutputOn2 ==
    /\ script = "PV" /\ pc = "outp_on_2"
    /\ Write("Curr_Read_Instr", ":OUTP ON", NoArg, 68, "bias")
    /\ UNCHANGED << script, conf, call, istep, session, locals, lists,
                    now, start_time, stdout, file, row >>

\* Curr_Read_Instr.write(f':SOUR:VOLT {read_bias}')
PV_Bias ==
    /\ script = "PV" /\ pc = "bias"
    /\ Write("Curr_Read_Instr", ":SOUR:VOLT", conf.read_bias, 71, "bias_prot")
    /\ UNCHANGED << script, conf, call, istep, session, locals, lists,
                    now, start_time, stdout, file, row >>

\* A faulty variant of PV_BiasProtection: the secondary's compliance is not set.
PV_BiasProtection_Omitted ==
    /\ script = "PV" /\ pc = "bias_prot"
    /\ pc' = "start"
    /\ UNCHANGED << script, conf, call, istep, session, bus, locals, lists,
                    now, start_time, stdout, file, row, err >>

\* Curr_Read_Instr.write(f':SENS:CURR:PROT {compliance_read}')
PV_BiasProtection ==
    /\ script = "PV" /\ pc = "bias_prot"
    /\ Write("Curr_Read_Instr", ":SENS:CURR:PROT",
             [mA |-> conf.compliance_read], 72, "start")
    /\ UNCHANGED << script, conf, call, istep, session, locals, lists,
                    now, start_time, stdout, file, row >>

PV_Start ==
    /\ script = "PV" /\ pc = "start"
    /\ start_time' = now
    /\ pc' = "for"
    /\ UNCHANGED << script, conf, call, istep, session, bus, locals, lists,
                    now, stdout, file, row, err >>

PV_For ==
    /\ script = "PV" /\ pc = "for"
    /\ ForNext("set_volt", "zero_1")
    /\ UNCHANGED << script, conf, call, istep, session, bus, points, voltage, t,
                    current, power, voltage_1, current_1, power_1, power_2,
                    lists, now, start_time, stdout, file, row, err >>

PV_SetVoltage ==
    /\ script = "PV" /\ pc = "set_volt"
    /\ SetVoltage("Volt_Supp_Instr", 78, "settle")
    /\ UNCHANGED << script, conf, call, istep, session, points, i, t,
                    current, power, voltage_1, current_1, power_1, power_2,
                    lists, now, start_time, stdout, file, row >>

PV_Settle ==
    /\ script = "PV" /\ pc = "settle"
    /\ Settle("read")
    /\ UNCHANGED << script, conf, call, istep, session, bus, points, i, voltage,
                    current, power, voltage_1, current_1, power_1, power_2,
                    lists, start_time, stdout, file, row, err >>

\* current = Volt_Supp_Instr.query_ascii_values(':READ?')[1]; power = voltage * current
PV_Read ==
    /\ script = "PV" /\ pc = "read"
    /\ \/ \E c \in Currents :
             /\ QueryReturns("Volt_Supp_Instr", ":READ?", 87, "read_v1")
             /\ current' = c
             /\ power' = FMul(voltage, c)
       \/ /\ QueryFails("Volt_Supp_Instr", ":READ?", 87)
          /\ UNCHANGED << current, power >>
    /\ UNCHANGED << script, conf, call, istep, session, points, i, voltage, t,
                    voltage_1, current_1, power_1, power_2,
                    lists, now, start_time, stdout, file, row >>

\* A faulty variant of PV_ReadVoltage1: the bias is written again in every
\* iteration and taken as the secondary's voltage.
PV_ReadVoltage1_Rebias ==
    /\ script = "PV" /\ pc = "read_v1"
    /\ Write("Curr_Read_Instr", ":SOUR:VOLT", conf.read_bias, 91, "read_c1")
    /\ voltage_1' = conf.read_bias
    /\ UNCHANGED << script, conf, call, istep, session, points, i, voltage, t,
                    current, power, current_1, power_1, power_2,
                    lists, now, start_time, stdout, file, row >>

\* voltage_1 = Curr_Read_Instr.query_ascii_values(':READ?')[0]
PV_ReadVoltage1 ==
    /\ script = "PV" /\ pc = "read_v1"
    /\ \/ /\ QueryReturns("Curr_Read_Instr", ":READ?", 91, "read_c1")
          /\ voltage_1' = Level("Curr_Read_Instr")
       \/ /\ QueryFails("Curr_Read_Instr", ":READ?", 91)
          /\ UNCHANGED voltage_1
    /\ UNCHANGED << script, conf, call, istep, session, points, i, voltage, t,
                    current, power, current_1, power_1, power_2,
                    lists, now, start_time, stdout, file, row >>

\* A faulty variant of PV_ReadCurrent1: the secondary's current is taken
\* from the reading that gave its voltage, without a second query.
PV_ReadCurrent1_SameRead ==
    /\ script = "PV" /\ pc = "read_c1"
    /\ \E c \in Currents :
          /\ current_1' = c
          /\ power_1' = FMul(voltage_1, c)
          /\ power_2' = FMul(voltage, c)
    /\ pc' = "append"
    /\ UNCHANGED << script, conf, call, istep, session, bus, points, i,
                    voltage, t, current, power, voltage_1,
                    lists, now, start_time, stdout, file, row, err >>

\* A faulty variant of PV_ReadCurrent1: the cross power is computed from
\* the secondary's own voltage.
PV_ReadCurrent1_NoCross ==
    /\ script = "PV" /\ pc = "read_c1"
    /\ \/ \E c \in Currents :
             /\ QueryReturns("Curr_Read_Instr", ":READ?", 92, "append")
             /\ current_1' = c
             /\ power_1' = FMul(voltage_1, c)
             /\ power_2' = FMul(voltage_1, c)
       \/ /\ QueryFails("Curr_Read_Instr", ":READ?", 92)
          /\ UNCHANGED << current_1, power_1, power_2 >>
    /\ UNCHANGED << script, conf, call, istep, session, points, i, voltage, t,
                    current, power, voltage_1,
                    lists, now, start_time, stdout, file, row >>

\* current_1 = Curr_Read_Instr.query_ascii_values(':READ?')[1], then the
\* two products power_1 and power_2
PV_ReadCurrent1 ==
    /\ script = "PV" /\ pc = "read_c1"
    /\ \/ \E c \in Currents :
             /\ QueryReturns("Curr_Read_Instr", ":READ?", 92, "append")
             /\ current_1' = c
             /\ power_1' = FMul(voltage_1, c)
             /\ power_2' = FMul(voltage, c)
       \/ /\ QueryFails("Curr_Read_Instr", ":READ?", 92)
          /\ UNCHANGED << current_1, power_1, power_2 >>
    /\ UNCHANGED << script, conf, call, istep, session, points, i, voltage, t,
                    current, power, voltage_1,
                    lists, now, start_time, stdout, file, row >>

PV_Append ==
    /\ script = "PV" /\ pc = "append"
    /\ t_values' = Append(t_values, t)
    /\ voltage_values' = Append(voltage_values, voltage)
    /\ current_values' = Append(current_values, current)
    /\ power_values' = Append(power_values, power)
    /\ voltage_1_values' = Append(voltage_1_values, voltage_1)
    /\ current_1_values' = Append(current_1_values, current_1)
    /\ power_1_values' = Append(power_1_values, power_1)
    /\ power_2_values' = Append(power_2_values, power_2)
    /\ pc' = "print"
    /\ UNCHANGED << script, conf, call, istep, session, bus, locals,
                    now, start_time, stdout, file, row, err >>

PV_Print ==
    /\ script = "PV" /\ pc = "print"
    /\ stdout' = Progress(voltage, current_1)
    /\ pc' = "for"
    /\ UNCHANGED << script, conf, call, istep, session, bus, locals, lists,
                    now, start_time, file, row, err >>

PV_Zero1 ==
    /\ script = "PV" /\ pc = "zero_1"
    /\ Write("Volt_Supp_Instr", ":SOUR:VOLT", Zero, 111, "zero_2")
    /\ UNCHANGED << script, conf, call, istep, session, locals, lists,
                    now, start_time, stdout, file, row >>

\* a shutdown sequence that leaves the secondary at its bias
PV_Zero2_Skipped ==
    /\ script = "PV" /\ pc = "zero_2"
    /\ pc' = "outp_off_1"
    /\ UNCHANGED << script, conf, call, istep, session, bus, locals, lists,
                    now, start_time, stdout, file, row, err >>

PV_Zero2 ==
    /\ script = "PV" /\ pc = "zero_2"
    /\ Write("Curr_Read_Instr", ":SOUR:VOLT", Zero, 112, "outp_off_1")
    /\ UNCHANGED << script, conf, call, istep, session, locals, lists,
                    now, start_time, stdout, file, row >>

PV_OutputOff1 ==
    /\ script = "PV" /\ pc = "outp_off_1"
    /\ Write("Volt_Supp_Instr", ":OUTP OFF", NoArg, 115, "outp_off_2")
    /\ UNCHANGED << script, conf, call, istep, session, locals, lists,
                    now, start_time, stdout, file, row >>

PV_OutputOff2 ==
    /\ script = "PV" /\ pc = "outp_off_2"
    /\ Write("Curr_Read_Instr", ":OUTP OFF", NoArg, 116, "input")
    /\ UNCHANGED << script, conf, call, istep, session, locals, lists,
                    now, start_time, stdout, file, row >>

\* directory = ...; filename = input("Enter filename: ") + ".txt"
PV_Input ==
    /\ script = "PV" /\ pc = "input"
    /\ pc' = "fopen"
    /\ UNCHANGED << script, conf, call, istep, session, bus, locals, lists,
                    now, start_time, stdout, file, row, err >>

PV_OpenFile ==
    /\ script = "PV" /\ pc = "fopen"
    /\ OpenFile("fheader")
    /\ UNCHANGED << script, conf, call, istep, session, bus, locals, lists,
                    now, start_time, stdout, row >>

PV_Header ==
    /\ script = "PV" /\ pc = "fheader"
    /\ file' = [file EXCEPT !.lines =
                  Preamble("#! Type = pv-sweep", "t V I P V1 I1 P1 P2")]
    /\ row' = 0
    /\ pc' = "frows"
    /\ UNCHANGED << script, conf, call, istep, session, bus, locals, lists,
                    now, start_time, stdout, err >>

PV_Rows ==
    /\ script = "PV" /\ pc = "frows"
    /\ WriteRows(<< t_values, voltage_values, current_values, power_values,
                    voltage_1_values, current_1_values, power_1_values,
                    power_2_values >>, "report")
    /\ UNCHANGED << script, conf, call, istep, session, bus, locals, lists,
                    now, start_time, stdout >>

\* print("Data saved successfully."), then the plot of |current_1| against voltage
PV_Report ==
    /\ script = "PV" /\ pc = "report"
    /\ pc' = "close_1"
    /\ UNCHANGED << script, conf, call, istep, session, bus, locals, lists,
                    now, start_time, stdout, file, row, err >>

\* Volt_Supp_Instr.close()
PV_Close1 ==
    /\ script = "PV" /\ pc = "close_1"
    /\ session' = [session EXCEPT !["Volt_Supp_Instr"] = "closed"]
    /\ pc' = "close_2"
    /\ UNCHANGED << script, conf, call, istep, bus, locals, lists,
                    now, start_time, stdout, file, row, err >>

\* Curr_Read_Instr.close()
PV_Close2 ==
    /\ script = "PV" /\ pc = "close_2"
    /\ session' = [session EXCEPT !["Curr_Read_Instr"] = "closed"]
    /\ pc' = "exit"
    /\ UNCHANGED << script, conf, call, istep, bus, locals, lists,
                    now, start_time, stdout, file, row, err >>

\* exit()
PV_Exit ==
    /\ script = "PV" /\ pc = "exit"
    /\ pc' = "exited"
    /\ UNCHANGED << script, conf, call, istep, session, bus, locals, lists,
                    now, start_time, stdout, file, row, err >>

Next ==
    \/ IV_initialize_Keithley
    \/ PV_initialize_Keithley
    \/ IV_Unpack
    \/ IV_OutputOn
    \/ IV_Start
    \/ IV_For
    \/ IV_SetVoltage
    \/ IV_Settle
    \/ IV_Read
    \/ IV_Append
    \/ IV_Print
    \/ IV_Zero
    \/ IV_OutputOff
    \/ IV_Input
    \/ IV_OpenFile
    \/ IV_Header
    \/ IV_Rows
    \/ IV_Report
    \/ IV_Close
    \/ IV_Exit
    \/ PV_Unpack
    \/ PV_OutputOn1
    \/ PV_OutputOn2
    \/ PV_Bias
    \/ PV_BiasProtection
    \/ PV_Start
    \/ PV_For
    \/ PV_SetVoltage
    \/ PV_Settle
    \/ PV_Read
    \/ PV_ReadVoltage1
    \/ PV_ReadCurrent1
    \/ PV_Append
    \/ PV_Print
    \/ PV_Zero1
    \/ PV_Zero2
    \/ PV_OutputOff1
    \/ PV_OutputOff2
    \/ PV_Input
    \/ PV_OpenFile
    \/ PV_Header
    \/ PV_Rows
    \/ PV_Report
    \/ PV_Close1
    \/ PV_Close2
    \/ PV_Exit

Spec == Init /\ [][Next]_vars

\* the run is over: the script exited, or an exception ended it
Halted == pc \in {"exited", "crashed"}

\* The scripts are sequential programs: a statement that can execute does.
\* This is weak fairness of Next, WF_vars(Next), written out as
\* []<>~ENABLED <<Next>>_vars \/ []<><<Next>>_vars with the enabling
\* condition of Next in closed form: a statement can execute exactly when the
\* run is not over.
FairSpec == Spec /\ ([]<>Halted \/ []<><<Next>>_vars)

(***************************************************************************)
(* What the bus log says about an instrument.                              *)
(***************************************************************************)

Primary == Driven(script)[1]

DrivenSet == {Driven(script)[n] : n \in 1..Len(Driven(script))}

IsZeroVolt(c) == IsVolt(c) /\ c.arg = Zero

IsOutputOn(c) == c.op = "write" /\ c.text = ":OUTP ON"

IsOutputOff(c) == c.op = "write" /\ c.text = ":OUTP OFF"

IsProtection(c) == c.op = "write" /\ c.text = ":SENS:CURR:PROT"

\* the statements of the stepping loop that talk to an instrument
LoopSteps == {"set_volt", "read", "read_v1", "read_c1"}

\* the statements after Keithley_VOLTAGE_SWEEP's shutdown sequence
AfterShutdown ==
    {"input", "fopen", "fheader", "frows", "report",
     "close", "close_1", "close_2", "exit", "exited"}

\* the sweep went through its loop and its shutdown sequence
SweepCompleted ==
    \/ pc \in AfterShutdown
    \/ pc = "crashed" /\ err.at \in AfterShutdown

\* the output state the commands received so far leave k in
OutputOf(k) ==
    LET w == SelectSeq(ToInst(k),
                       LAMBDA c : c.ok /\ (IsOutputOn(c) \/ IsOutputOff(c)))
    IN  IF w = << >> THEN "OFF"
        ELSE IF IsOutputOn(w[Len(w)]) THEN "ON" ELSE "OFF"

\* C1: after a sweep that completes, the last two commands issued to each
\* driven instrument are ':SOUR:VOLT 0' and then ':OUTP OFF', whatever the
\* point count.
C1_ShutdownIsLast ==
    SweepCompleted =>
        \A k \in DrivenSet :
            LET w == ToInst(k)
                n == Len(w)
            IN  /\ n >= 2
                /\ IsZeroVolt(w[n - 1]) /\ w[n - 1].ok
                /\ IsOutputOff(w[n]) /\ w[n].ok

\* a completed dual-instrument sweep of several points
C1_Witness ==
    /\ SweepCompleted
    /\ script = "PV"
    /\ Len(voltage_values) >= 2
    /\ IsOutputOff(bus[Len(bus)])

\* every driven instrument received 'voltage = 0' and then 'disable output'
Finalized ==
    \A k \in DrivenSet :
        LET w == ToInst(k)
        IN  \E a, b \in 1..Len(w) :
               /\ a < b
               /\ w[a].line > 46 /\ IsZeroVolt(w[a]) /\ w[a].ok
               /\ IsOutputOff(w[b]) /\ w[b].ok

OutputEnabled == \E j \in 1..Len(bus) : IsOutputOn(bus[j]) /\ bus[j].ok

TransportFailed == err.kind = "TransportError"

\* C2: in a run in which no write or query fails, once the output has been
\* enabled the sweep eventually leaves the loop and every driven instrument
\* receives 'voltage = 0' and then 'disable output', for every point count.
C2_FinalizationUnconditional ==
    OutputEnabled ~> (Finalized \/ TransportFailed)

\* the finalization of a sweep of zero points, and of one of several points
C2_Witness ==
    /\ Finalized
    /\ ~TransportFailed
    /\ points = 0 \/ Len(voltage_values) >= 2

\* C3: a write or query that fails inside the stepping loop ends the run:
\* the failed command is the last on the bus (no ':SOUR:VOLT 0', no
\* ':OUTP OFF'), no result file exists, every driven output is still on and
\* the last source voltage commanded to the swept instrument is the loop's.
C3_LoopFailureAbandonsSweep ==
    (TransportFailed /\ err.at \in LoopSteps) =>
        /\ pc = "crashed"
        /\ ~bus[Len(bus)].ok
        /\ \A j \in 1..(Len(bus) - 1) : bus[j].ok
        /\ file = NoFile
        /\ \A k \in DrivenSet : OutputOf(k) = "ON"
        /\ LET w == SelectSeq(ToInst(Primary), IsVolt)
           IN  /\ w[Len(w)].arg = voltage
               /\ w[Len(w)].line \in {69, 78}

\* a query of the secondary fails in the second iteration
C3_Witness ==
    /\ TransportFailed
    /\ err.at = "read_c1"
    /\ i >= 1
    /\ pc = "crashed"

\* the statements of initialize_Keithley and the unpacking of the parameters
BeforeSweepCommands == {"open", "idn", "config", "return", "unpack"}

\* the sweep was given a maximum below its minimum
Inverted == conf.lit[2] < conf.lit[1]

\* C4: a sweep configured with Vmax < Vmin and a positive step fails fast
\* with a configuration error before the sweep commands any instrument: no
\* ':OUTP ON', no source voltage, no query, and no result file.
C4_FailsFast ==
    Inverted =>
        /\ \A j \in 1..Len(bus) : bus[j].line <= 46
        /\ file = NoFile
        /\ pc \notin BeforeSweepCommands
              => pc = "crashed" /\ err.kind = "ConfigurationError"

\* the compliance the run's parameters give for instrument k
GivenCompliance(k) ==
    IF k = "Curr_Read_Instr" THEN conf.compliance_read
    ELSE conf.compliance_current

\* C5: the compliance limit the initializer programs into an instrument is
\* the one the run's parameters give for it: compliance_current in the
\* single-instrument script; compliance_current for the primary and
\* compliance_read for the secondary in the dual-instrument script.
C5_ProgramsGivenCompliance ==
    \A j \in 1..Len(bus) :
        (IsProtection(bus[j]) /\ bus[j].line = 40)
            => bus[j].arg.mA = GivenCompliance(bus[j].inst)

\* the order of configuration the initializer is to follow
InitTexts ==
    << "*rst; status:preset;", ":SOUR:FUNC VOLT", ":SOUR:VOLT",
       ":SENS:CURR:PROT", ":SENS:CURR:RANG:AUTO ON", ":SENS:FUNC \"CURR\"" >>

\* the writes addressed to k, in order
WritesTo(k) == SelectSeq(ToInst(k), LAMBDA c : c.op = "write")

\* the bus entries of one initialize_Keithley call: the '*IDN?' query and
\* the configuration writes
CallLength == 1 + Len(InitTexts)

\* C6: the writes of initialize_Keithley to an instrument are, in order and
\* with no other write in between, reset, source function, source voltage 0,
\* compliance, auto-ranging, measurement function; and a sweep command
\* (the first to each instrument being ':OUTP ON') is issued only when every
\* driven instrument received all six.
C6_InitOrder ==
    /\ \A k \in DrivenSet :
          LET w == WritesTo(k)
          IN  \A j \in 1..Len(w) :
                 /\ j <= Len(InitTexts)
                       => /\ w[j].text = InitTexts[j]
                          /\ w[j].line <= 46
                          /\ IsVolt(w[j]) => w[j].arg = Zero
                 /\ j > Len(InitTexts) => w[j].line > 46
                 /\ j = Len(InitTexts) + 1 => IsOutputOn(w[j])
    /\ \A j \in 1..Len(bus) :
          IF j <= CallLength * Len(Driven(script))
            THEN /\ bus[j].line <= 46
                 /\ bus[j].inst = Driven(script)[(j - 1) \div CallLength + 1]
                 /\ j < Len(bus) => bus[j].ok
            ELSE bus[j].line > 46

\* the dual-instrument sweep enabled the output of its second instrument
C6_Witness ==
    /\ script = "PV"
    /\ \E j \in 1..Len(bus) :
          /\ bus[j].inst = "Curr_Read_Instr"
          /\ IsOutputOn(bus[j]) /\ bus[j].ok

\* the source voltages the stepping loop commanded, in order
LoopVoltages ==
    SelectSeq(ToInst(Primary), LAMBDA c : IsVolt(c) /\ c.line \in {69, 78})

\* the loop was left through its end
LoopEnded ==
    \/ pc \in {"zero", "zero_1", "zero_2", "outp_off", "outp_off_1", "outp_off_2"}
    \/ pc \in AfterShutdown
    \/ pc = "crashed" /\ err.at \notin (LoopSteps \cup BeforeSweepCommands
                                        \cup {"outp_on", "outp_on_1",
                                              "outp_on_2", "bias", "bias_prot"})

\* min < max and the step divides the range, on the parameters as written
ValidSweep ==
    /\ conf.lit[1] < conf.lit[2]
    /\ (conf.lit[2] - conf.lit[1]) % conf.lit[3] = 0

\* floor((max - min) / step) + 1
PointCount == (conf.lit[2] - conf.lit[1]) \div conf.lit[3] + 1

\* C7: for a valid sweep (min < max, step > 0 dividing the range) the loop
\* runs floor((max - min) / step) + 1 times, the first voltage it commands is
\* min and the last is min + (pointCount - 1) * step.
C7_PointCount ==
    (ValidSweep /\ LoopEnded) =>
        LET w == LoopVoltages
        IN  /\ Len(w) = PointCount
            /\ w[1].arg = conf.Vmin
            /\ w[Len(w)].arg =
                  SweepVoltage(conf.Vmin, conf.step_size, PointCount - 1)

\* the per-field lists of the script
Series ==
    IF script = "IV"
      THEN << t_values, voltage_values, current_values, power_values >>
      ELSE << t_values, voltage_values, current_values, power_values,
              voltage_1_values, current_1_values, power_1_values,
              power_2_values >>

\* the statements of the stepping loop
InLoop ==
    pc \in {"for", "set_volt", "settle", "read", "read_v1", "read_c1",
            "append", "print"}

\* the data rows of the result file: what follows the preamble and the header
DataRows == Len(file.lines) - Len(Preamble("", ""))

\* C8: the lists are created empty and appended to once per step: inside the
\* loop they all have the same length, the number of completed iterations;
\* when the loop ends that length is the point count and the i-th recorded
\* voltage is Vmin + i * step; the written file has one data row per sample.
C8_SeriesLengths ==
    /\ (InLoop \/ LoopEnded) =>
          \A n \in 1..Len(Series) : Len(Series[n]) = Len(voltage_values)
    /\ pc = "start" => Len(voltage_values) = 0
    /\ pc = "for" => Len(voltage_values) = i + 1
    /\ pc \in {"set_volt", "settle", "read", "read_v1", "read_c1", "append"}
          => Len(voltage_values) = i
    /\ LoopEnded => Len(voltage_values) = points
    /\ pc \in {"zero", "zero_1"} =>
          \A n \in 1..Len(voltage_values) :
             voltage_values[n] = SweepVoltage(conf.Vmin, conf.step_size, n - 1)
    /\ pc \in {"report", "close", "close_1", "close_2", "exit", "exited"}
          => DataRows = Len(voltage_values)

\* C9: in the dual-instrument sweep, when the first swept voltage is
\* commanded to the primary, both outputs have been enabled, the secondary
\* has been commanded to its bias and the secondary's compliance has been set.
C9_SetupBeforeStepping ==
    \A j \in 1..Len(bus) :
        (script = "PV" /\ bus[j].line = 78) =>
            /\ \E a \in 1..(j - 1) :
                  /\ bus[a].inst = "Volt_Supp_Instr"
                  /\ IsOutputOn(bus[a]) /\ bus[a].ok
            /\ \E a \in 1..(j - 1) :
                  /\ bus[a].inst = "Curr_Read_Instr"
                  /\ IsOutputOn(bus[a]) /\ bus[a].ok
            /\ \E a \in 1..(j - 1) :
                  /\ bus[a].inst = "Curr_Read_Instr" /\ bus[a].line > 46
                  /\ IsVolt(bus[a]) /\ bus[a].ok
                  /\ bus[a].arg = conf.read_bias
            /\ \E a \in 1..(j - 1) :
                  /\ bus[a].inst = "Curr_Read_Instr" /\ bus[a].line > 46
                  /\ IsProtection(bus[a]) /\ bus[a].ok
                  /\ bus[a].arg.mA = conf.compliance_read

\* the first swept voltage of a dual-instrument sweep is on the bus
C9_Witness ==
    /\ script = "PV"
    /\ \E j \in 1..Len(bus) : bus[j].line = 78 /\ bus[j].ok

\* a source-voltage, compliance or output command
IsSetting(c) ==
    IsVolt(c) \/ IsProtection(c) \/ IsOutputOn(c) \/ IsOutputOff(c)

\* bus[j] is the bias command the sweep issues before stepping
IsBiasCommand(j) ==
    /\ script = "PV" /\ bus[j].inst = "Curr_Read_Instr"
    /\ bus[j].line = 71 /\ IsVolt(bus[j])

\* bus[j] is the secondary's ':SOUR:VOLT 0' of the shutdown sequence
IsFinalZero(j) ==
    /\ script = "PV" /\ bus[j].inst = "Curr_Read_Instr"
    /\ bus[j].line = 112 /\ IsZeroVolt(bus[j])

\* no ':SOUR:VOLT 0' of the shutdown sequence among bus[a..b]
BeforeFinalZero(a, b) == \A n \in a..b : ~IsFinalZero(n)

\* C10 (as stated): between the bias command issued before stepping and the
\* final ':SOUR:VOLT 0' no source-voltage, compliance or output command is
\* written to the secondary.
C10_NoSettingAfterBias ==
    \A a \in 1..Len(bus) :
        IsBiasCommand(a) =>
            \A b \in (a + 1)..Len(bus) :
                (bus[b].inst = "Curr_Read_Instr" /\ BeforeFinalZero(a, b))
                    => ~IsSetting(bus[b])

\* C10 (amended): the bias command is followed by the secondary's compliance
\* command; between that command and the final ':SOUR:VOLT 0' no
\* source-voltage, compliance or output command is written to the
\* secondary, which inside the stepping loop receives queries only.
C10_BiasConstant ==
    \A a \in 1..Len(bus) :
        IsBiasCommand(a) =>
            /\ a < Len(bus) =>
                  /\ bus[a + 1].inst = "Curr_Read_Instr"
                  /\ bus[a + 1].line = 72
                  /\ IsProtection(bus[a + 1])
            /\ \A b \in (a + 2)..Len(bus) :
                  (bus[b].inst = "Curr_Read_Instr" /\ BeforeFinalZero(a, b))
                      => /\ bus[b].op = "query"
                         /\ bus[b].line \in {91, 92}
            /\ \A b \in (a + 1)..Len(bus) :
                  (IsVolt(bus[b]) /\ bus[b].inst = "Curr_Read_Instr")
                      => IsFinalZero(b)

\* a dual-instrument sweep of several points reached the secondary's final
\* ':SOUR:VOLT 0'
C10_Witness ==
    /\ script = "PV"
    /\ Len(voltage_values) >= 2
    /\ \E j \in 1..Len(bus) : IsFinalZero(j) /\ bus[j].ok

\* the source level the commands bus[1..j-1] leave k at
LevelBefore(k, j) ==
    LET w == SelectSeq(SubSeq(bus, 1, j - 1),
                       LAMBDA c : c.inst = k /\ IsVolt(c) /\ c.ok)
    IN  IF w = << >> THEN Zero ELSE w[Len(w)].arg

\* C11: in the shutdown sequence of the dual-instrument sweep both source
\* voltages are set to 0 before either output is disabled: when ':OUTP OFF'
\* is written to the primary or to the secondary, each of the two has
\* received the sweep's ':SOUR:VOLT 0' and is commanded to 0 V.
C11_ZeroBeforeAnyOff ==
    \A j \in 1..Len(bus) :
        (script = "PV" /\ IsOutputOff(bus[j])) =>
            \A k \in DrivenSet :
                /\ \E a \in 1..(j - 1) :
                      /\ bus[a].inst = k /\ bus[a].line \in {111, 112}
                      /\ IsZeroVolt(bus[a]) /\ bus[a].ok
                /\ LevelBefore(k, j) = Zero

\* the primary's output is disabled after a sweep that stepped the primary
\* to a non-zero voltage with the secondary at a non-zero bias
C11_Witness ==
    /\ script = "PV"
    /\ conf.read_bias # Zero
    /\ \E n \in 1..Len(voltage_values) : voltage_values[n] # Zero
    /\ \E j \in 1..Len(bus) :
          /\ bus[j].inst = "Volt_Supp_Instr"
          /\ IsOutputOff(bus[j]) /\ bus[j].ok

\* the commands of the single-instrument stepping loop, in order
IV_LoopCommands == SelectSeq(bus, LAMBDA c : c.line \in {69, 76})

\* where the single-instrument loop stands: its commands alternate between
\* the source-voltage write and the ':READ?' query, sample n was commanded by
\* the n-th write, settled once and read by the n-th query, and the
\* iteration in progress has done its steps in order
IV_LoopState ==
    LET w == IV_LoopCommands
        done == Len(current_values)
    IN  /\ \A n \in 1..Len(w) :
              /\ w[n].inst = "Keithley"
              /\ IF n % 2 = 1 THEN IsVolt(w[n])
                 ELSE w[n].op = "query" /\ w[n].text = ":READ?"
              /\ n < Len(w) => w[n].ok
        /\ Len(w) \in (2 * done)..(2 * done + 2)
        /\ \A n \in 1..done :
              /\ voltage_values[n] = w[2 * n - 1].arg
              /\ t_values[n] = n
        /\ pc = "for" => done = i + 1 /\ Len(w) = 2 * done
        /\ pc = "set_volt" => done = i /\ Len(w) = 2 * i
        /\ pc = "settle" =>
              /\ done = i /\ Len(w) = 2 * i + 1
              /\ w[Len(w)].arg = voltage /\ now - start_time = i
        /\ pc = "read" =>
              /\ done = i /\ Len(w) = 2 * i + 1
              /\ w[Len(w)].arg = voltage /\ t = i + 1
        /\ pc = "append" => done = i /\ Len(w) = 2 * i + 2 /\ t = i + 1
        /\ pc = "print" =>
              /\ done = i + 1 /\ Len(w) = 2 * done
              /\ current_values[done] = current
              /\ voltage_values[done] = voltage

\* one statement of the single-instrument loop: the statements follow each
\* other in the order command, settle, query, append; the current changes
\* only by a ':READ?' query and is appended as read
IV_LoopStep ==
    /\ pc = "set_volt" => pc' \in {"settle", "crashed"}
    /\ pc = "settle" => pc' = "read"
    /\ pc = "read" => pc' \in {"append", "crashed"}
    /\ pc = "append" => pc' = "print"
    /\ pc = "print" => pc' = "for"
    /\ (pc = "read" /\ pc' = "append") =>
          bus' = Append(bus, Cmd("Keithley", "query", ":READ?", NoArg, 76, TRUE))
    /\ current' # current => pc = "read" /\ pc' = "append"
    /\ current_values' # current_values =>
          /\ pc = "append"
          /\ t_values' = Append(t_values, t)
          /\ voltage_values' = Append(voltage_values, voltage)
          /\ current_values' = Append(current_values, current)

\* C12: each iteration of the single-instrument sweep commands the voltage,
\* settles, records the elapsed time, queries the current and appends the
\* sample, in that order and once each; every recorded current was queried
\* after its voltage was commanded and settled and before the next voltage
\* is commanded.
C12_IterationOrder ==
    /\ [](script = "IV" => IV_LoopState)
    /\ [][script = "IV" => IV_LoopStep]_vars

\* a single-instrument sweep recorded two samples with different currents
C12_Witness ==
    /\ script = "IV" /\ pc = "for"
    /\ Len(current_values) >= 2
    /\ current_values[1] # current_values[2]

\* the commands of the dual-instrument stepping loop, in order
PV_LoopCommands == SelectSeq(bus, LAMBDA c : c.line \in {78, 87, 91, 92})

\* the n-th command of an iteration of the dual-instrument loop
PV_IsLoopCommand(c, n) ==
    CASE n = 1 -> c.inst = "Volt_Supp_Instr" /\ IsVolt(c) /\ c.line = 78
      [] n = 2 -> /\ c.inst = "Volt_Supp_Instr" /\ c.line = 87
                  /\ c.op = "query" /\ c.text = ":READ?"
      [] n = 3 -> /\ c.inst = "Curr_Read_Instr" /\ c.line = 91
                  /\ c.op = "query" /\ c.text = ":READ?"
      [] n = 4 -> /\ c.inst = "Curr_Read_Instr" /\ c.line = 92
                  /\ c.op = "query" /\ c.text = ":READ?"

\* where the dual-instrument loop stands: its commands come in groups of
\* write primary, query primary, query secondary, query secondary, one group
\* per recorded sample and a partial one for the iteration in progress
PV_LoopState ==
    LET w == PV_LoopCommands
        done == Len(current_1_values)
    IN  /\ \A n \in 1..Len(w) :
              /\ PV_IsLoopCommand(w[n], ((n - 1) % 4) + 1)
              /\ n < Len(w) => w[n].ok
        /\ Len(w) \in (4 * done)..(4 * done + 4)
        /\ \A n \in 1..done :
              /\ voltage_values[n] = w[4 * n - 3].arg
              /\ t_values[n] = n
        /\ pc = "for" => done = i + 1 /\ Len(w) = 4 * done
        /\ pc = "set_volt" => done = i /\ Len(w) = 4 * i
        /\ pc = "settle" =>
              done = i /\ Len(w) = 4 * i + 1 /\ now - start_time = i
        /\ pc = "read" => done = i /\ Len(w) = 4 * i + 1 /\ t = i + 1
        /\ pc = "read_v1" => done = i /\ Len(w) = 4 * i + 2
        /\ pc = "read_c1" => done = i /\ Len(w) = 4 * i + 3
        /\ pc = "append" => done = i /\ Len(w) = 4 * i + 4
        /\ pc = "print" =>
              /\ done = i + 1 /\ Len(w) = 4 * done
              /\ current_values[done] = current
              /\ voltage_1_values[done] = voltage_1
              /\ current_1_values[done] = current_1

\* one statement of the dual-instrument loop: the statements follow each
\* other in the order command, settle, query primary, query secondary, query
\* secondary, append; the secondary's voltage changes only by the query of
\* line 91 and its current only by the query of line 92
PV_LoopStep ==
    /\ pc = "set_volt" => pc' \in {"settle", "crashed"}
    /\ pc = "settle" => pc' = "read"
    /\ pc = "read" => pc' \in {"read_v1", "crashed"}
    /\ pc = "read_v1" => pc' \in {"read_c1", "crashed"}
    /\ pc = "read_c1" => pc' \in {"append", "crashed"}
    /\ pc = "append" => pc' = "print"
    /\ (pc = "read" /\ pc' = "read_v1") =>
          bus' = Append(bus, Cmd("Volt_Supp_Instr", "query", ":READ?",
                                 NoArg, 87, TRUE))
    /\ (pc = "read_v1" /\ pc' = "read_c1") =>
          bus' = Append(bus, Cmd("Curr_Read_Instr", "query", ":READ?",
                                 NoArg, 91, TRUE))
    /\ (pc = "read_c1" /\ pc' = "append") =>
          bus' = Append(bus, Cmd("Curr_Read_Instr", "query", ":READ?",
                                 NoArg, 92, TRUE))
    /\ current' # current => pc = "read" /\ pc' = "read_v1"
    /\ voltage_1' # voltage_1 => pc = "read_v1" /\ pc' = "read_c1"
    /\ current_1' # current_1 => pc = "read_c1" /\ pc' = "append"
    /\ current_1_values' # current_1_values =>
          /\ pc = "append"
          /\ voltage_values' = Append(voltage_values, voltage)
          /\ current_values' = Append(current_values, current)
          /\ voltage_1_values' = Append(voltage_1_values, voltage_1)
          /\ current_1_values' = Append(current_1_values, current_1)

\* C13: each iteration of the dual-instrument sweep issues one voltage
\* command and one query to the primary and two separate queries to the
\* secondary, in the order command primary, settle, query primary, query
\* secondary, query secondary; the recorded secondary voltage and secondary
\* current come from two different reads.
C13_DualIterationOrder ==
    /\ [](script = "PV" => PV_LoopState)
    /\ [][script = "PV" => PV_LoopStep]_vars

\* a dual-instrument sweep recorded two samples, the secondary at a non-zero
\* bias
C13_Witness ==
    /\ script = "PV" /\ pc = "for"
    /\ Len(current_1_values) >= 2
    /\ voltage_1_values[2] # Zero
    /\ current_1_values[1] # current_1_values[2]

\* a has no fractional part: it is zero, or its lowest mantissa bit weighs
\* at least one
IsWhole(a) ==
    \/ a.man = << >>
    \/ a.exp >= 0
    \/ -a.exp < Prec /\ Shl(Shr(a.man, -a.exp), -a.exp) = a.man

\* what sample n shows to the operator: the commanded voltage and the
\* current of the instrument under measurement
Observation(n) ==
    [voltage |-> voltage_values[n],
     current |-> IF script = "IV" THEN current_values[n]
                                  ELSE current_1_values[n]]

\* the samples whose progress line is due: all those appended, but the last
\* one while its print statement has not run
Reported ==
    IF pc = "print" THEN Len(voltage_values) - 1 ELSE Len(voltage_values)

\* C14: a progress line is printed if and only if the commanded voltage is a
\* whole number, after the sample of that iteration was appended, and it
\* carries that iteration's voltage and measured current (the instrument's
\* current in the single-instrument sweep, the secondary's in the dual one).
C14_ProgressOnWholeVolts ==
    (InLoop \/ LoopEnded) =>
        stdout = SelectSeq([n \in 1..Reported |-> Observation(n)],
                           LAMBDA r : IsWhole(r.voltage))

\* a dual-instrument sweep reported a whole voltage and stayed silent on a
\* fractional one, the two instruments' currents differing
C14_Witness ==
    /\ script = "PV" /\ pc = "for"
    /\ Len(stdout) = 1
    /\ Len(voltage_values) >= 2
    /\ \E n \in 1..Len(voltage_values) :
          /\ IsWhole(voltage_values[n])
          /\ current_values[n] # current_1_values[n]
          /\ stdout[1] = Observation(n)

\* the statements that save and plot the result
Persisting == pc \in {"fopen", "fheader", "frows", "report"}

\* k is at 0 V with its output off, and the shutdown sequence's ':OUTP OFF'
\* is the last command on the bus
ShutDown ==
    /\ Finalized
    /\ \A k \in DrivenSet : Level(k) = Zero /\ OutputOf(k) = "OFF"
    /\ bus # << >>
    /\ IsOutputOff(bus[Len(bus)]) /\ bus[Len(bus)].line \in {93, 116}

\* saving started after the shutdown sequence, and a failure to create the
\* file ended the run, with nothing written and the sessions left as they
\* were
PersistenceState ==
    /\ (Persisting \/ file # NoFile) => ShutDown
    /\ pc \in {"fheader", "frows"} => file.state = "open"
    /\ pc \in {"report", "close", "close_1", "close_2", "exit", "exited"}
          => file.state = "closed"
    /\ err.kind = "PersistenceError" =>
          /\ pc = "crashed" /\ err.at = "fopen"
          /\ file = NoFile
          /\ ShutDown
          /\ \A k \in DrivenSet : session[k] = "open"

\* a statement that touches the file issues no command, and no statement
\* follows a failure to create the file
PersistenceStep ==
    /\ file' # file => bus' = bus
    /\ Persisting => bus' = bus
    /\ err.kind = "PersistenceError" => bus' = bus /\ pc' = pc

\* C15: saving and plotting start only after the shutdown sequence is
\* complete: whenever the file is being written every driven instrument has
\* received ':SOUR:VOLT 0' and ':OUTP OFF'; a failure to create the file is
\* raised to the caller and no instrument command follows it.
C15_PersistAfterShutdown ==
    /\ []PersistenceState
    /\ [][PersistenceStep]_vars

\* the rows of a dual-instrument sweep are being written
C15_Witness ==
    /\ script = "PV" /\ pc = "frows"
    /\ row >= 2
    /\ file.state = "open"

\* the derived fields of sample n are the products of its own fields
ProductsOf(n) ==
    /\ power_values[n] = FMul(voltage_values[n], current_values[n])
    /\ script = "PV" =>
          /\ power_1_values[n] = FMul(voltage_1_values[n], current_1_values[n])
          /\ power_2_values[n] = FMul(voltage_values[n], current_1_values[n])

\* C16: the derived fields of every recorded sample are products of the
\* same sample's fields: power = voltage * current and, in the
\* dual-instrument sweep, power_1 = voltage_1 * current_1 and
\* power_2 = voltage * current_1.  (Checked on the sample just appended and
\* on all samples when the loop has ended.)
C16_DerivedProducts ==
    /\ pc = "print" => ProductsOf(Len(voltage_values))
    /\ pc \in {"zero", "zero_1"} =>
          \A n \in 1..Len(voltage_values) : ProductsOf(n)

\* a dual-instrument sweep recorded a sample whose three powers are
\* non-zero and pairwise different
C16_Witness ==
    /\ script = "PV" /\ pc = "zero_1"
    /\ \E n \in 1..Len(voltage_values) :
          /\ power_values[n] # Zero
          /\ power_1_values[n] # Zero
          /\ power_2_values[n] # Zero
          /\ power_values[n] # power_1_values[n]
          /\ power_values[n] # power_2_values[n]
          /\ power_1_values[n] # power_2_values[n]

\* the statements of the main program that follow the sweep
AfterSweep == {"close", "close_1", "close_2", "exit", "exited"}

\* a closed session was closed by the main program after the sweep returned,
\* with the shutdown sequence as the last commands and the file saved
SessionState ==
    \A k \in Instruments :
        session[k] = "closed" =>
            /\ k \in DrivenSet
            /\ pc \in AfterSweep
            /\ ShutDown
            /\ file.state = "closed"

\* a session is closed by a close statement of the main program only, from
\* the open state; a closed session stays closed and nothing is written
\* or queried once a session is closed
SessionStep ==
    /\ \A k \in Instruments :
          /\ (session'[k] = "closed" /\ session[k] # "closed") =>
                /\ session[k] = "open"
                /\ pc \in {"close", "close_1", "close_2"}
                /\ pc' \in AfterSweep /\ pc' # pc
          /\ session[k] = "closed" => session'[k] = "closed" /\ bus' = bus
    /\ pc \in AfterSweep => pc' \in AfterSweep \ {"close", "close_1", pc}

\* C17: the sweep never closes an instrument; sessions are closed by the
\* main program only, after the sweep returned (shutdown, saving and
\* plotting done); each opened instrument is closed at most once and no
\* write or query follows a close.
C17_CallerCloses ==
    /\ []SessionState
    /\ [][SessionStep]_vars

\* the dual-instrument script exited with both sessions closed
C17_Witness ==
    /\ script = "PV" /\ pc = "exited"
    /\ session["Volt_Supp_Instr"] = "closed"
    /\ session["Curr_Read_Instr"] = "closed"

\* bus[j] switches an output
IsOutputSwitch(j) == IsOutputOn(bus[j]) \/ IsOutputOff(bus[j])

\* bus[j] commands a source voltage other than 0 V
IsNonZeroVolt(j) == IsVolt(bus[j]) /\ bus[j].arg # Zero

\* the last source-voltage command to k among bus[1..j-1] is ':SOUR:VOLT 0'
ZeroCommandedBefore(k, j) ==
    \E a \in 1..(j - 1) :
        /\ bus[a].inst = k /\ IsZeroVolt(bus[a])
        /\ \A b \in (a + 1)..(j - 1) : ~(bus[b].inst = k /\ IsVolt(bus[b]))

\* C18: in a run in which no write or query fails the output is switched
\* only at 0 V: at every ':OUTP ON' and ':OUTP OFF' the most recent
\* source-voltage command to that instrument is ':SOUR:VOLT 0'; every
\* non-zero source-voltage command comes after that instrument's ':OUTP ON'
\* and before its ':OUTP OFF', which follows when the sweep completes.
C18_SwitchAtZeroVolts ==
    ~TransportFailed =>
        \A j \in 1..Len(bus) :
            /\ IsOutputSwitch(j) => ZeroCommandedBefore(bus[j].inst, j)
            /\ IsNonZeroVolt(j) =>
                  /\ \E a \in 1..(j - 1) :
                        bus[a].inst = bus[j].inst /\ IsOutputOn(bus[a])
                  /\ \A a \in 1..(j - 1) :
                        ~(bus[a].inst = bus[j].inst /\ IsOutputOff(bus[a]))
                  /\ SweepCompleted =>
                        \E b \in (j + 1)..Len(bus) :
                            bus[b].inst = bus[j].inst /\ IsOutputOff(bus[b])

\* a dual-instrument sweep completed after a non-zero voltage was commanded
\* to each instrument
C18_Witness ==
    /\ script = "PV" /\ pc = "input"
    /\ ~TransportFailed
    /\ \A k \in DrivenSet :
          \E j \in 1..Len(bus) : bus[j].inst = k /\ IsNonZeroVolt(j)

\* a < b and a <= b on floats
FLess(a, b) == LET d == FSub(a, b) IN d.man # << >> /\ d.sgn = -1

FLeq(a, b) == ~FLess(b, a)

\* C19 (as stated): for every configuration with step_size > 0, including
\* those with Vmax < Vmin or a step that does not divide the range, every
\* voltage commanded inside the stepping loop lies in [Vmin, Vmax]: the
\* voltage just written by the loop is at least Vmin and at most Vmax.
C19_VoltagesInRange ==
    (pc = "settle" /\ bus[Len(bus)].line \in {69, 78}) =>
        /\ bus[Len(bus)].arg = voltage
        /\ FLeq(conf.Vmin, voltage)
        /\ FLeq(voltage, conf.Vmax)

====
